---- MODULE Spec2Model ----
(***************************************************************************)
(* Model of backend/main.py: the natural-language property search.         *)
(*                                                                         *)
(* A Python str is modelled as a sequence of one-character strings, so    *)
(* that the regular expressions, strip(), split(), lower() and the        *)
(* numeric conversions of the source are computed character by character. *)
(* A value whose Python type varies is tagged: None is NoneVal, a str is   *)
(* Str(chars), an int is Num(n), and a missing dict key is Absent.        *)
(***************************************************************************)
EXTENDS Integers, Sequences, FiniteSets, TLC

VARIABLES
    pc,                \* position of the request in search_properties
    query,             \* request.query
    criteria,          \* search_criteria (NoneVal before extract_search_params)
    search_summary,    \* generate_search_summary's result
    ai,                \* what the Groq call did (NoneVal before it is issued)
    location_overview, \* generate_location_overview's result
    provider,          \* what the Zillow call did (NoneVal before it is issued)
    properties_data,   \* the provider's records being normalized
    idx,               \* number of records the normalization loop has consumed
    properties,        \* the Property objects appended so far
    kept,              \* history: the positions in properties_data of those objects
    raised,            \* status of the HTTPException raised inside search_zillow's try
    response,          \* what the caller of search_properties gets
    calls              \* history: the steps taken, in order

vars == <<pc, query, criteria, search_summary, ai, location_overview, provider,
          properties_data, idx, properties, kept, raised, response, calls>>

NoneVal == [t |-> "none"]
Absent == [t |-> "absent"]
Str(s) == [t |-> "str", v |-> s]
Num(n) == [t |-> "int", v |-> n]
IsStr(x) == x.t = "str"
IsNum(x) == x.t = "int"

\* ------------------------------------------------------------------------
\* Bounds of the model
\* ------------------------------------------------------------------------
MaxWords == 3
MaxRecords == 2

\* ------------------------------------------------------------------------
\* Characters and the str methods the source uses
\* ------------------------------------------------------------------------
UpperSeq == <<"A","B","C","D","E","F","G","H","I","J","K","L","M",
              "N","O","P","Q","R","S","T","U","V","W","X","Y","Z">>
LowerSeq == <<"a","b","c","d","e","f","g","h","i","j","k","l","m",
              "n","o","p","q","r","s","t","u","v","w","x","y","z">>
DigitSeq == <<"0","1","2","3","4","5","6","7","8","9">>

UpperLetters == {UpperSeq[i] : i \in 1..26}
LowerLetters == {LowerSeq[i] : i \in 1..26}
Digits == {DigitSeq[i] : i \in 1..10}
\* what \s, str.strip() and str.split() treat as white space
Whitespace == {" ", "\t", "\n"}

SetMin(S) == CHOOSE x \in S : \A y \in S : x <= y
SetMax(S) == CHOOSE x \in S : \A y \in S : x >= y

\* c.lower() of one character
ToLower(c) ==
    IF c \in UpperLetters THEN LowerSeq[CHOOSE i \in 1..26 : UpperSeq[i] = c] ELSE c

\* s.lower()
lower(s) == [i \in 1..Len(s) |-> ToLower(s[i])]

\* c.isupper() of one character
isupper(c) == c \in UpperLetters

\* s.strip()
strip(s) ==
    LET keep == {i \in 1..Len(s) : s[i] \notin Whitespace}
    IN  IF keep = {} THEN <<>> ELSE SubSeq(s, SetMin(keep), SetMax(keep))

\* s.split(): the maximal runs of non-white-space characters, in order
RECURSIVE SplitFrom(_, _)
SplitFrom(s, i) ==
    IF i > Len(s) THEN <<>>
    ELSE IF s[i] \in Whitespace THEN SplitFrom(s, i + 1)
    ELSE LET stops == {j \in i..Len(s) : s[j] \in Whitespace}
             e == IF stops = {} THEN Len(s) ELSE SetMin(stops) - 1
         IN  <<SubSeq(s, i, e)>> \o SplitFrom(s, e + 1)

split(s) == SplitFrom(s, 1)

\* whether t occurs in s at position p
OccursAt(t, s, p) ==
    /\ p >= 1
    /\ p + Len(t) - 1 <= Len(s)
    /\ \A k \in 1..Len(t) : s[p + k - 1] = t[k]

\* the Python test `t in s`
Contains(s, t) == \E p \in 1..(Len(s) + 1) : OccursAt(t, s, p)

\* s.replace(c, "") for a one-character c
Remove(s, c) == SelectSeq(s, LAMBDA ch : ch # c)

\* end of the maximal run of characters of class C that starts at i (i - 1 if none)
RunEnd(s, i, C) ==
    LET stops == {j \in i..Len(s) : s[j] \notin C}
    IN  IF stops = {} THEN Len(s) ELSE SetMin(stops) - 1

\* ------------------------------------------------------------------------
\* extract_location
\* ------------------------------------------------------------------------
\* the literal prefixes of location_patterns, in the order of the list
location_patterns == << <<"i","n"," ">>, <<"a","t"," ">>, <<"n","e","a","r"," ">> >>

\* the character class [A-Za-z\s,]
LocationClass == UpperLetters \cup LowerLetters \cup Whitespace \cup {","}

\* start positions at which `<prefix>([A-Za-z\s,]+)` matches under re.IGNORECASE
LocationMatches(prefix, s) ==
    LET folded == lower(s)
    IN  {p \in 1..Len(s) :
            /\ OccursAt(prefix, folded, p)
            /\ p + Len(prefix) <= Len(s)
            /\ s[p + Len(prefix)] \in LocationClass}

\* match.group(1) of re.search: leftmost match, greedy class run
LocationGroup(prefix, s) ==
    LET p == SetMin(LocationMatches(prefix, s))
        b == p + Len(prefix)
    IN  SubSeq(s, b, RunEnd(s, b, LocationClass))

\* the closed city -> state table of lines 93-104
StateSuffix(location_lower) ==
    CASE location_lower = <<"b","o","s","t","o","n">> -> <<",", " ", "M", "A">>
      [] location_lower \in { <<"n","e","w"," ","y","o","r","k">>, <<"n","y","c">> }
            -> <<",", " ", "N", "Y">>
      [] location_lower = <<"m","i","a","m","i">> -> <<",", " ", "F", "L">>
      [] location_lower = <<"c","h","i","c","a","g","o">> -> <<",", " ", "I", "L">>
      [] location_lower = <<"l","o","s"," ","a","n","g","e","l","e","s">>
            -> <<",", " ", "C", "A">>
      [] location_lower \in { <<"p","r","i","n","c","e","v","i","l","l","e">>,
                              <<"k","a","p","a","a">>, <<"p","o","i","p","u">>,
                              <<"k","a","u","a","i">> }
            -> <<",", " ", "H", "I">>
      [] OTHER -> <<>>

\* lines 87-106: the location a matched pattern yields
AddState(location) ==
    IF Contains(location, <<",">>) THEN location
    ELSE location \o StateSuffix(lower(location))

\* lines 108-117: no pattern matched
Raise400 == [raises |-> 400]

\* LocationFallback with a default location in place of the error of line 117
LocationFallbackDefault(q) ==
    LET words == split(q)
    IN  IF words # <<>> /\ isupper(words[1][1])
        THEN [returns |-> Str(words[1])]
        ELSE [returns |-> Str(<<"K","a","u","a","i",","," ","H","I">>)]

LocationFallback(q) ==
    LET words == split(q)
    IN  IF words # <<>> /\ isupper(words[1][1])
        THEN [returns |-> Str(words[1])]
        ELSE Raise400

RECURSIVE ExtractLocationFrom(_, _)
ExtractLocationFrom(q, k) ==
    IF k > Len(location_patterns) THEN LocationFallback(q)
    ELSE IF LocationMatches(location_patterns[k], q) # {}
         THEN [returns |-> Str(AddState(strip(LocationGroup(location_patterns[k], q))))]
         ELSE ExtractLocationFrom(q, k + 1)

\* extract_location(query): [returns |-> Str(location)] or [raises |-> 400]
extract_location(q) == ExtractLocationFrom(q, 1)

\* ------------------------------------------------------------------------
\* extract_search_params: property type (lines 136-144)
\* ------------------------------------------------------------------------
\* PropertyTypeOf with the tests for "condo" and for "land"/"lot" exchanged
PropertyTypeOfCondoFirst(query_lower) ==
    IF Contains(query_lower, <<"c","o","n","d","o">>)
    THEN "CONDO"
    ELSE IF \/ Contains(query_lower, <<"l","a","n","d">>)
            \/ Contains(query_lower, <<"l","o","t">>)
    THEN "LAND"
    ELSE IF \/ Contains(query_lower, <<"t","o","w","n","h","o","u","s","e">>)
            \/ Contains(query_lower, <<"t","o","w","n"," ","h","o","u","s","e">>)
    THEN "TOWNHOUSE"
    ELSE IF Contains(query_lower, <<"m","u","l","t","i">>)
    THEN "MULTI_FAMILY"
    ELSE "SINGLE_FAMILY"

PropertyTypeOf(query_lower) ==
    IF \/ Contains(query_lower, <<"l","a","n","d">>)
       \/ Contains(query_lower, <<"l","o","t">>)
    THEN "LAND"
    ELSE IF Contains(query_lower, <<"c","o","n","d","o">>)
    THEN "CONDO"
    ELSE IF \/ Contains(query_lower, <<"t","o","w","n","h","o","u","s","e">>)
            \/ Contains(query_lower, <<"t","o","w","n"," ","h","o","u","s","e">>)
    THEN "TOWNHOUSE"
    ELSE IF \/ Contains(query_lower, <<"m","u","l","t","i">>)
            \/ Contains(query_lower, <<"m","u","l","t","i","-","f","a","m","i","l","y">>)
    THEN "MULTI_FAMILY"
    ELSE "SINGLE_FAMILY"

\* ------------------------------------------------------------------------
\* extract_search_params: price patterns (lines 147-165)
\* ------------------------------------------------------------------------
Under == <<"u","n","d","e","r">>
LessThan == <<"l","e","s","s"," ","t","h","a","n">>
Million == <<"m","i","l","l","i","o","n">>

\* price_patterns with the bare patterns moved to the front of the list
price_patterns_BareFirst ==
    << [word |-> <<>>,     million |-> TRUE],
       [word |-> <<>>,     million |-> FALSE],
       [word |-> Under,    million |-> TRUE],
       [word |-> Under,    million |-> FALSE],
       [word |-> LessThan, million |-> TRUE],
       [word |-> LessThan, million |-> FALSE] >>

\* price_patterns, in the order of the list: the literal the pattern starts with
\* (followed by ` ?`; none for the bare patterns) and whether the captured number
\* must be followed by \s*million
price_patterns ==
    << [word |-> Under,    million |-> TRUE],
       [word |-> Under,    million |-> FALSE],
       [word |-> LessThan, million |-> TRUE],
       [word |-> LessThan, million |-> FALSE],
       [word |-> <<>>,     million |-> TRUE],
       [word |-> <<>>,     million |-> FALSE] >>

\* Where the capture group starts when `word ?\$?` (or `\$?`) is matched from p.
\* An optional item that is present is consumed: leaving it would put a blank or
\* a "$" where the pattern needs a "$" or a digit.
CaptureStart(pat, s, p) ==
    LET i == p + Len(pat.word)
        j == IF pat.word # <<>> /\ i <= Len(s) /\ s[i] = " " THEN i + 1 ELSE i
    IN  IF j <= Len(s) /\ s[j] = "$" THEN j + 1 ELSE j

\* Where the capture group ends: \d+ then `,?\d*` (plain) or `\.?\d*` (million),
\* all greedy. Giving characters back never helps: what follows a shorter capture
\* is a digit, the separator or a blank, none of which starts \s*million.
CaptureEnd(pat, s, b) ==
    LET e1 == RunEnd(s, b, Digits)
        sep == IF pat.million THEN "." ELSE ","
        e2 == IF e1 + 1 <= Len(s) /\ s[e1 + 1] = sep THEN e1 + 1 ELSE e1
    IN  RunEnd(s, e2 + 1, Digits)

\* whether the pattern matches starting exactly at p
PriceMatchesAt(pat, s, p) ==
    /\ OccursAt(pat.word, s, p)
    /\ LET b == CaptureStart(pat, s, p)
       IN  /\ b <= Len(s)
           /\ s[b] \in Digits
           /\ pat.million =>
                 OccursAt(Million, s, RunEnd(s, CaptureEnd(pat, s, b) + 1, Whitespace) + 1)

PriceMatches(pat, s) == {p \in 1..Len(s) : PriceMatchesAt(pat, s, p)}

\* match.group(1) of re.search(pattern, query_lower): the leftmost match
PriceGroup(pat, s) ==
    LET b == CaptureStart(pat, s, SetMin(PriceMatches(pat, s)))
    IN  SubSeq(s, b, CaptureEnd(pat, s, b))

DigitValue(c) == (CHOOSE i \in 1..10 : DigitSeq[i] = c) - 1

\* str(int(v)) of a non-negative whole number written in digits: no leading zeros
RECURSIVE StripZeros(_)
StripZeros(d) ==
    IF Len(d) > 1 /\ Head(d) = "0" THEN StripZeros(Tail(d)) ELSE d

Zeros(n) == [i \in 1..n |-> "0"]

\* float() of a whole number gives inf from 2^1024 - 2^970 on: the least number
\* that rounds beyond the largest double. It has 309 digits.
FloatLimit ==
    <<"1","7","9","7","6","9","3","1","3","4","8","6","2","3","1","5","8","0","7","9","3","7","2","8","9","7","1","4","0","5","3","0","3","4","1","5","0","7","9","9","3","4","1","3","2","7","1","0","0","3","7","8","2","6","9","3","6","1","7","3","7","7","8","9","8","0","4","4","4","9","6","8","2","9","2","7","6","4","7","5","0","9","4","6","6","4","9","0","1","7","9","7","7","5","8","7","2","0","7","0","9","6","3","3","0","2","8","6","4","1","6","6","9","2","8","8","7","9","1","0","9","4","6","5","5","5","5","4","7","8","5","1","9","4","0","4","0","2","6","3","0","6","5","7","4","8","8","6","7","1","5","0","5","8","2","0","6","8","1","9","0","8","9","0","2","0","0","0","7","0","8","3","8","3","6","7","6","2","7","3","8","5","4","8","4","5","8","1","7","7","1","1","5","3","1","7","6","4","4","7","5","7","3","0","2","7","0","0","6","9","8","5","5","5","7","1","3","6","6","9","5","9","6","2","2","8","4","2","9","1","4","8","1","9","8","6","0","8","3","4","9","3","6","4","7","5","2","9","2","7","1","9","0","7","4","1","6","8","4","4","4","3","6","5","5","1","0","7","0","4","3","4","2","7","1","1","5","5","9","6","9","9","5","0","8","0","9","3","0","4","2","8","8","0","1","7","7","9","0","4","1","7","4","4","9","7","7","9","2">>

\* whether the whole number written a is less than the one written b (no
\* leading zeros in either)
DigitsLess(a, b) ==
    \/ Len(a) < Len(b)
    \/ /\ Len(a) = Len(b)
       /\ \E i \in 1..Len(a) :
             /\ DigitValue(a[i]) < DigitValue(b[i])
             /\ \A j \in 1..(i - 1) : a[j] = b[j]

\* int(price) raises OverflowError on inf
FloatOverflows(d) == ~DigitsLess(d, FloatLimit)

IntegerPart(x) ==
    LET dots == {i \in 1..Len(x) : x[i] = "."}
    IN  IF dots = {} THEN x ELSE SubSeq(x, 1, SetMin(dots) - 1)

FractionPart(x) ==
    LET dots == {i \in 1..Len(x) : x[i] = "."}
    IN  IF dots = {} THEN <<>> ELSE SubSeq(x, SetMin(dots) + 1, Len(x))

\* The digits of str(int(price)) for the two converters:
\*   plain:   float(x.replace(',', ''))  -> the digits, leading zeros dropped
\*   million: float(x) * 1000000         -> the decimal point moved six places,
\*            the rest of the fraction cut by int()
\* The value is computed in decimal. The double is the same for the numerals of
\* the vocabularies below FloatLimit (2, 2.5, 500000), not for every numeral:
\* 2.05 million gives 2049999, a number beyond 2^53 gives the digits of the
\* nearest double, and a product within a rounding error of FloatLimit may
\* overflow. Which numbers overflow without a product is exact.
PlainDigits(x) == StripZeros(Remove(x, ","))

MillionDigits(x) ==
    LET f == FractionPart(x)
        six == IF Len(f) >= 6 THEN SubSeq(f, 1, 6) ELSE f \o Zeros(6 - Len(f))
    IN  StripZeros(IntegerPart(x) \o six)

\* converter(match.group(1)) and int(price): [value |-> digits], or ConvertFails
\* when it raises and the loop continues with the next pattern (line 165)
ConvertFails == [fails |-> TRUE]

ConvertPlain(x) ==
    IF FloatOverflows(PlainDigits(x)) THEN ConvertFails ELSE [value |-> PlainDigits(x)]

ConvertMillion(x) ==
    IF FloatOverflows(MillionDigits(x)) THEN ConvertFails ELSE [value |-> MillionDigits(x)]

Convert(pat, x) == IF pat.million THEN ConvertMillion(x) ELSE ConvertPlain(x)

\* the loop of lines 156-165 from pattern k on: the max_price it sets, or NoneVal
RECURSIVE MaxPriceFrom(_, _)
MaxPriceFrom(s, k) ==
    IF k > Len(price_patterns) THEN NoneVal
    ELSE LET pat == price_patterns[k]
         IN  IF PriceMatches(pat, s) = {} THEN MaxPriceFrom(s, k + 1)
             ELSE LET price == Convert(pat, PriceGroup(pat, s))
                  IN  IF price = ConvertFails THEN MaxPriceFrom(s, k + 1)
                      ELSE Str(price.value)

ExtractMaxPrice(query_lower) == MaxPriceFrom(query_lower, 1)

\* extract_search_params(query): [returns |-> criteria] or [raises |-> 400]
extract_search_params(q) ==
    LET loc == extract_location(q)
    IN  IF loc = Raise400 THEN Raise400
        ELSE [returns |->
                [location |-> loc.returns,
                 min_price |-> NoneVal,
                 max_price |-> ExtractMaxPrice(lower(q)),
                 property_type |-> PropertyTypeOf(lower(q))]]

\* ------------------------------------------------------------------------
\* Numbers as Python writes and reads them
\* ------------------------------------------------------------------------
\* str(n) of a non-negative int
RECURSIVE IntToStr(_)
IntToStr(n) ==
    IF n < 10 THEN <<DigitSeq[n + 1]>>
    ELSE IntToStr(n \div 10) \o <<DigitSeq[(n % 10) + 1]>>

\* the value of a string of digits
RECURSIVE DigitsToInt(_)
DigitsToInt(d) ==
    IF d = <<>> THEN 0
    ELSE 10 * DigitsToInt(SubSeq(d, 1, Len(d) - 1)) + DigitValue(d[Len(d)])

\* Whether float(s) accepts s, for the numerals of the model: optional blanks
\* around digits with at most one decimal point and at least one digit.
IsNumeral(s) ==
    LET t == strip(s)
        dots == {i \in 1..Len(t) : t[i] = "."}
    IN  /\ t # <<>>
        /\ \A i \in 1..Len(t) : t[i] \in Digits \cup {"."}
        /\ Cardinality(dots) <= 1
        /\ \E i \in 1..Len(t) : t[i] \in Digits

\* the digits of int(float(s)) for a numeral s: the fraction is cut
WholeDigits(s) ==
    LET w == IntegerPart(strip(s))
    IN  StripZeros(IF w = <<>> THEN <<"0">> ELSE w)

\* f"{n:,}" of the whole number written d
RECURSIVE GroupThousands(_)
GroupThousands(d) ==
    IF Len(d) <= 3 THEN d
    ELSE GroupThousands(SubSeq(d, 1, Len(d) - 3)) \o <<",">> \o SubSeq(d, Len(d) - 2, Len(d))

\* ------------------------------------------------------------------------
\* generate_search_summary (lines 170-206)
\* ------------------------------------------------------------------------
\* property_type_display.get(property_type, "properties")
PropertyTypeDisplay(property_type) ==
    CASE property_type = "SINGLE_FAMILY" -> <<"s","i","n","g","l","e","-","f","a","m","i","l","y"," ","h","o","m","e","s">>
      [] property_type = "CONDO" -> <<"c","o","n","d","o","m","i","n","i","u","m","s">>
      [] property_type = "TOWNHOUSE" -> <<"t","o","w","n","h","o","u","s","e","s">>
      [] property_type = "MULTI_FAMILY" -> <<"m","u","l","t","i","-","f","a","m","i","l","y"," ","h","o","m","e","s">>
      [] property_type = "LAND" -> <<"l","a","n","d">>
      [] OTHER -> <<"p","r","o","p","e","r","t","i","e","s">>

\* Python truth of a value: None, "" and 0 are false
Truthy(x) == x # Absent /\ x # NoneVal /\ x # Str(<<>>) /\ x # Num(0)

\* property_type is one of the type names, or "" (false)
TruthyType(property_type) == property_type # ""

\* int(float(v.replace("$", "").replace(",", ""))) and then f"${n:,}"
SummaryRaises == [raises |-> 500]

Dollars(v) ==
    LET t == Remove(Remove(v.v, "$"), ",")
    IN  IF IsNumeral(t) THEN <<"$">> \o GroupThousands(WholeDigits(t)) ELSE <<>>

PriceParses(v) == IsStr(v) /\ IsNumeral(Remove(Remove(v.v, "$"), ","))

\* PriceClause with the test of max_price alone tried first: both bounds give
\* the clause of the upper bound
PriceClauseMaxFirst(min_price, max_price) ==
    IF Truthy(max_price) THEN <<"p","r","i","c","e","d"," ","u","n","d","e","r"," ">> \o Dollars(max_price)
    ELSE IF Truthy(min_price) THEN <<"p","r","i","c","e","d"," ","a","b","o","v","e"," ">> \o Dollars(min_price)
    ELSE <<>>

\* the price clause appended to summary_parts (<<>>: none)
PriceClause(min_price, max_price) ==
    IF Truthy(min_price) /\ Truthy(max_price)
    THEN <<"p","r","i","c","e","d"," ","b","e","t","w","e","e","n"," ">> \o Dollars(min_price) \o <<" ","a","n","d"," ">> \o Dollars(max_price)
    ELSE IF Truthy(min_price) THEN <<"p","r","i","c","e","d"," ","a","b","o","v","e"," ">> \o Dollars(min_price)
    ELSE IF Truthy(max_price) THEN <<"p","r","i","c","e","d"," ","u","n","d","e","r"," ">> \o Dollars(max_price)
    ELSE <<>>

\* generate_search_summary(search_criteria): [returns |-> summary] or SummaryRaises.
\* summary_parts[0] = ... on the empty list (no location) raises IndexError, and
\* float() of a price that is no number raises ValueError.
generate_search_summary(c) ==
    IF TruthyType(c.property_type) /\ ~Truthy(c.location) THEN SummaryRaises
    ELSE IF Truthy(c.min_price) /\ ~PriceParses(c.min_price) THEN SummaryRaises
    ELSE IF Truthy(c.max_price) /\ ~PriceParses(c.max_price) THEN SummaryRaises
    ELSE LET head == IF TruthyType(c.property_type)
                     THEN <<"L","o","o","k","i","n","g"," ","f","o","r"," ">> \o PropertyTypeDisplay(c.property_type) \o <<" ","i","n"," ">> \o c.location.v
                     ELSE IF Truthy(c.location)
                     THEN <<"L","o","o","k","i","n","g"," ","f","o","r"," ","p","r","o","p","e","r","t","i","e","s"," ","i","n"," ">> \o c.location.v
                     ELSE <<>>
             clause == PriceClause(c.min_price, c.max_price)
         IN  [returns |->
                IF clause = <<>> THEN head
                ELSE IF head = <<>> THEN clause
                ELSE head \o <<" ">> \o clause]

\* ------------------------------------------------------------------------
\* generate_location_overview (lines 208-258)
\* ------------------------------------------------------------------------
\* What requests.post and the reading of its response can do:
\*   "ok"        status 200 and a body holding choices[0].message.content
\*   "non200"    any other status code
\*   "timeout"   requests.post raises (time-out, connection error)
\*   "malformed" status 200 and a body that is no JSON or lacks the fields
AIOutcomes == {"ok", "non200", "timeout", "malformed"}

OverviewText == <<"o","v","e","r","v","i","e","w">>

\* generate_location_overview returning response.text on a status other than 200
generate_location_overview_ErrorText(outcome) ==
    CASE outcome = "ok" -> Str(OverviewText)
      [] outcome = "non200" -> Str(<<"e","r","r","o","r">>)
      [] OTHER -> NoneVal

\* the value generate_location_overview returns: line 251, line 254 or line 258
generate_location_overview(outcome) ==
    CASE outcome = "ok" -> Str(OverviewText)
      [] outcome = "non200" -> NoneVal
      [] OTHER -> NoneVal

\* ------------------------------------------------------------------------
\* search_zillow: one record of the normalization loop (lines 352-394)
\* ------------------------------------------------------------------------
\* A provider record is a dict, modelled as a record whose fields are Absent when
\* the key is missing, or NotADict for a list element that is no dict.
NotADict == [t |-> "notdict"]

\* prop.get(key, default)
Get(x, default) == IF x = Absent THEN default ELSE x

\* str(x) as an f-string writes it
PyStr(x) ==
    IF x = NoneVal THEN <<"N","o","n","e">>
    ELSE IF IsNum(x) THEN IntToStr(x.v)
    ELSE x.v

RecordRaises == [raises |-> TRUE]

\* PriceOf without the "0" default of line 355: a missing price raises
PriceOfMissingRaises(prop) ==
    LET price_str == prop.price
    IN  IF price_str = Absent \/ price_str = NoneVal THEN RecordRaises
        ELSE IF IsNum(price_str) THEN [value |-> price_str.v]
        ELSE LET t == Remove(Remove(price_str.v, "$"), ",")
             IN  IF IsNumeral(t) THEN [value |-> DigitsToInt(WholeDigits(t))]
                 ELSE RecordRaises

\* lines 355-358: int(float(price_str)), or RecordRaises
PriceOf(prop) ==
    LET price_str == Get(prop.price, Str(<<"0">>))
    IN  IF price_str = NoneVal THEN RecordRaises
        ELSE IF IsNum(price_str) THEN [value |-> price_str.v]
        ELSE LET t == Remove(Remove(price_str.v, "$"), ",")
             IN  IF IsNumeral(t) THEN [value |-> DigitsToInt(WholeDigits(t))]
                 ELSE RecordRaises

\* lines 361-367
FeaturesOf(prop) ==
    (IF Truthy(prop.bedrooms) THEN <<PyStr(prop.bedrooms) \o <<" ","b","e","d","r","o","o","m","s">>>> ELSE <<>>)
    \o (IF Truthy(prop.bathrooms) THEN <<PyStr(prop.bathrooms) \o <<" ","b","a","t","h","r","o","o","m","s">>>> ELSE <<>>)
    \o (IF Truthy(prop.livingArea) THEN <<PyStr(prop.livingArea) \o <<" ","s","q","f","t">>>> ELSE <<>>)

\* line 370
PropTypeOf(prop) == Get(prop.propertyType, Get(prop.homeType, Str(<<"P","r","o","p","e","r","t","y">>)))

\* lines 373-378: prop.get(key, "").strip() raises on a value that is no str
AddressRaises(prop) ==
    \E x \in {prop.streetAddress, prop.city, prop.state} : x # Absent /\ ~IsStr(x)

RECURSIVE JoinComma(_)
JoinComma(parts) ==
    IF parts = <<>> THEN <<>>
    ELSE IF Len(parts) = 1 THEN parts[1]
    ELSE parts[1] \o <<",", " ">> \o JoinComma(Tail(parts))

LocationStrOf(prop) ==
    LET location_parts == << strip(Get(prop.streetAddress, Str(<<>>)).v),
                             strip(Get(prop.city, Str(<<>>)).v),
                             strip(Get(prop.state, Str(<<>>)).v) >>
    IN  JoinComma(SelectSeq(location_parts, LAMBDA x : x # <<>>))

\* lines 380-388: Property(...) refuses an image_url that is no str
ImageUrlOf(prop) == Get(prop.imgSrc, Get(prop.imageUrl, Str(<<>>)))

\* One iteration of the loop body: [returns |-> Property] when the record is
\* appended, RecordRaises when the except clause of line 391 skips it.
NormalizeRecord(prop, location) ==
    IF prop = NotADict THEN RecordRaises
    ELSE IF PriceOf(prop) = RecordRaises THEN RecordRaises
    ELSE IF AddressRaises(prop) THEN RecordRaises
    ELSE IF ~IsStr(ImageUrlOf(prop)) THEN RecordRaises
    ELSE [returns |->
            [id |-> PyStr(Get(prop.zpid, Get(prop.id, Str(<<>>)))),
             title |-> PyStr(PropTypeOf(prop)) \o <<" ","i","n"," ">> \o PyStr(Get(prop.city, location)),
             price |-> PriceOf(prop).value,
             location |-> LocationStrOf(prop),
             summary |-> PyStr(PropTypeOf(prop)) \o <<" ","w","i","t","h"," ">>
                         \o PyStr(Get(prop.bedrooms, Str(<<"N","/","A">>))) \o <<" ","b","e","d","s",","," ">>
                         \o PyStr(Get(prop.bathrooms, Str(<<"N","/","A">>))) \o <<" ","b","a","t","h","s">>,
             image_url |-> ImageUrlOf(prop).v,
             features |-> FeaturesOf(prop)]]

\* ------------------------------------------------------------------------
\* search_zillow: the request and the reading of its response (lines 308-349)
\* ------------------------------------------------------------------------
\* What requests.get and the reading of its response can do:
\*   kind "timeout"     requests.get raises requests.exceptions.Timeout
\*   kind "connection"  requests.get raises another RequestException
\*   kind "http"        a response whose status raise_for_status() refuses
\*   kind "not_json"    status 200, response.json() raises JSONDecodeError
\*   kind "not_dict"    status 200, the body is JSON but no object
\*   kind "api_error"   status 200, the object has an "error" key
\*   kind "json"        status 200, an object; props and results are its "props"
\*                      and "results" values: a list of records, or Absent
HttpErrorStatuses == {401, 429, 503}

List(l) == [t |-> "list", v |-> l]

\* results.get("props", results.get("results", []))
PropertiesData(o) == Get(o.props, Get(o.results, List(<<>>))).v

\* The exception raised inside the try block of search_zillow, if any:
\* [exc |-> class, status |-> status_code of an HTTPException], else NoException.
NoException == [exc |-> "none", status |-> 0]

RaisedInside(o) ==
    CASE o.kind = "timeout" -> [exc |-> "Timeout", status |-> 0]
      [] o.kind = "connection" -> [exc |-> "RequestException", status |-> 0]
      [] o.kind = "http" ->
            [exc |-> "HTTPException",
             status |-> IF o.status = 401 THEN 500
                        ELSE IF o.status = 429 THEN 429
                        ELSE o.status]
      [] o.kind = "not_json" -> [exc |-> "HTTPException", status |-> 500]
      [] o.kind = "not_dict" -> [exc |-> "HTTPException", status |-> 500]
      [] o.kind = "api_error" -> [exc |-> "HTTPException", status |-> 400]
      [] o.kind = "json" /\ PropertiesData(o) = <<>> ->
            [exc |-> "HTTPException", status |-> 404]
      [] OTHER -> NoException

\* The except clauses of lines 399-409, tried in order: the status of the
\* HTTPException that leaves search_zillow. fastapi's HTTPException is an
\* Exception and no RequestException, so the last clause catches it.
SurfacedStatus(e) ==
    IF e.exc = "Timeout" THEN 504
    ELSE IF e.exc = "RequestException" THEN 500
    ELSE 500

\* ------------------------------------------------------------------------
\* The request: search_properties (lines 411-479), one action per step
\* ------------------------------------------------------------------------
NotCalled == [kind |-> "not_called"]
NoResponse == [status |-> 0]
ErrorResponse(status) == [status |-> status]

\* lines 418-423: extract_search_params, and the check of the location
Interpret ==
    /\ pc = "start"
    /\ LET r == extract_search_params(query)
       IN  IF r = Raise400 \/ ~Truthy(r.returns.location)
           THEN /\ pc' = "done"
                /\ response' = ErrorResponse(400)
                /\ UNCHANGED criteria
           ELSE /\ pc' = "summarize"
                /\ criteria' = r.returns
                /\ UNCHANGED response
    /\ calls' = Append(calls, "interpret")
    /\ UNCHANGED <<query, search_summary, ai, location_overview, provider,
                   properties_data, idx, properties, kept, raised>>

\* lines 425-427; an exception of generate_search_summary leaves through line 477
Summarize ==
    /\ pc = "summarize"
    /\ LET r == generate_search_summary(criteria)
       IN  IF r = SummaryRaises
           THEN /\ pc' = "done"
                /\ response' = ErrorResponse(500)
                /\ UNCHANGED search_summary
           ELSE /\ pc' = "overview"
                /\ search_summary' = r.returns
                /\ UNCHANGED response
    /\ calls' = Append(calls, "summarize")
    /\ UNCHANGED <<query, criteria, ai, location_overview, provider,
                   properties_data, idx, properties, kept, raised>>

\* Overview with line 430 left out: no call is made
OverviewSkipped ==
    /\ pc = "overview"
    /\ pc' = "search"
    /\ UNCHANGED <<query, criteria, search_summary, ai, location_overview, provider,
                   properties_data, idx, properties, kept, raised, response, calls>>

\* lines 429-431: the call of the text-generation provider
Overview ==
    /\ pc = "overview"
    /\ \E outcome \in AIOutcomes :
          /\ ai' = outcome
          /\ location_overview' = generate_location_overview(outcome)
    /\ pc' = "search"
    /\ calls' = Append(calls, "ai")
    /\ UNCHANGED <<query, criteria, search_summary, provider,
                   properties_data, idx, properties, kept, raised, response>>

\* ------------------------------------------------------------------------
\* Inputs of the model
\* ------------------------------------------------------------------------
\* the sequences of at most n elements of S
SeqsUpTo(S, n) == UNION {[1..k -> S] : k \in 0..n}

\* " ".join(words)
RECURSIVE JoinWords(_)
JoinWords(words) ==
    IF words = <<>> THEN <<>>
    ELSE IF Len(words) = 1 THEN words[1]
    ELSE words[1] \o <<" ">> \o JoinWords(Tail(words))

\* the queries of at most MaxWords words of a vocabulary, joined by single blanks
Queries(Vocabulary) == {JoinWords(w) : w \in SeqsUpTo(Vocabulary, MaxWords)}

\* provider records: a well-formed one, and its variations field by field
BaseRecord ==
    [price |-> Num(250000), bedrooms |-> Num(3), bathrooms |-> Num(2),
     livingArea |-> Num(1500), propertyType |-> Absent, homeType |-> Str(<<"C","o","n","d","o">>),
     streetAddress |-> Str(<<"1"," ","E","l","m">>), city |-> Str(<<"B","o","s","t","o","n">>), state |-> Str(<<"M","A">>),
     zpid |-> Num(101), id |-> Absent, imgSrc |-> Str(<<"u",".","j","p","g">>), imageUrl |-> Absent]

PriceValues ==
    {Absent, NoneVal, Num(0), Num(250000), Str(<<"$","1",",","2","0","0">>), Str(<<"1","2","0","0",".","7","5">>), Str(<<"a","b","c">>), Str(<<>>)}

CountValues == {Absent, Num(0), Num(3)}

AddressValues == {Absent, NoneVal, Str(<<>>), Str(<<" ">>), Str(<<"B","o","s","t","o","n">>)}

ImageValues == {Absent, NoneVal, Str(<<"u",".","j","p","g">>)}

NormRecords ==
    {[BaseRecord EXCEPT !.price = x] : x \in PriceValues}
    \cup {[BaseRecord EXCEPT !.bedrooms = b, !.bathrooms = a, !.livingArea = l] :
            b \in CountValues, a \in CountValues, l \in CountValues}
    \cup {[BaseRecord EXCEPT !.city = x] : x \in AddressValues}
    \cup {[BaseRecord EXCEPT !.imgSrc = x] : x \in ImageValues}
    \cup {NotADict}

\* the records of the whole-request specification
PipelineRecords ==
    {BaseRecord, [BaseRecord EXCEPT !.price = Absent],
     [BaseRecord EXCEPT !.price = Str(<<"a","b","c">>)], NotADict}

RecordLists(Records) == {List(l) : l \in SeqsUpTo(Records, MaxRecords)}

ProviderOutcomes ==
    {[kind |-> "timeout"], [kind |-> "connection"], [kind |-> "not_json"],
     [kind |-> "not_dict"], [kind |-> "api_error"]}
    \cup {[kind |-> "http", status |-> st] : st \in HttpErrorStatuses}
    \cup {[kind |-> "json", props |-> l, results |-> Absent] :
            l \in RecordLists(PipelineRecords) \cup {Absent}}
    \cup {[kind |-> "json", props |-> Absent, results |-> l] :
            l \in RecordLists(PipelineRecords)}

\* ------------------------------------------------------------------------
\* search_properties, continued: search_zillow and the response
\* ------------------------------------------------------------------------
\* lines 434-440 with search_zillow's lines 262-349: the request is sent and its
\* response read; an exception leaves search_zillow through lines 399-409 and
\* search_properties through lines 467-469 and 474-476, which re-raise it.
ZillowRequest ==
    /\ pc = "search"
    /\ \E o \in ProviderOutcomes :
          /\ provider' = o
          /\ raised' = RaisedInside(o)
          /\ IF RaisedInside(o) # NoException
             THEN /\ pc' = "done"
                  /\ response' = ErrorResponse(SurfacedStatus(RaisedInside(o)))
                  /\ UNCHANGED <<properties_data, idx, properties, kept>>
             ELSE /\ pc' = "normalize"
                  /\ properties_data' = PropertiesData(o)
                  /\ idx' = 0
                  /\ properties' = <<>>
                  /\ kept' = <<>>
                  /\ UNCHANGED response
    /\ calls' = Append(calls, "provider")
    /\ UNCHANGED <<query, criteria, search_summary, ai, location_overview>>

\* NormalizeStep without the try of line 353: a record that raises ends the
\* loop, and the exception leaves search_zillow through line 407
NormalizeStepAborts ==
    /\ pc = "normalize"
    /\ idx < Len(properties_data)
    /\ LET r == NormalizeRecord(properties_data[idx + 1], criteria.location)
       IN  IF r = RecordRaises
           THEN /\ pc' = "done"
                /\ response' = ErrorResponse(500)
                /\ UNCHANGED <<properties, kept>>
           ELSE /\ properties' = Append(properties, r.returns)
                /\ kept' = Append(kept, idx + 1)
                /\ UNCHANGED <<pc, response>>
    /\ idx' = idx + 1
    /\ calls' = IF idx = 0 THEN Append(calls, "normalize") ELSE calls
    /\ UNCHANGED <<query, criteria, search_summary, ai, location_overview,
                   provider, properties_data, raised>>

\* lines 352-394: one iteration of `for prop in properties_data`
NormalizeStep ==
    /\ pc = "normalize"
    /\ idx < Len(properties_data)
    /\ LET r == NormalizeRecord(properties_data[idx + 1], criteria.location)
       IN  IF r = RecordRaises
           THEN UNCHANGED <<properties, kept>>
           ELSE /\ properties' = Append(properties, r.returns)
                /\ kept' = Append(kept, idx + 1)
    /\ idx' = idx + 1
    /\ calls' = IF idx = 0 THEN Append(calls, "normalize") ELSE calls
    /\ UNCHANGED <<pc, query, criteria, search_summary, ai, location_overview,
                   provider, properties_data, raised, response>>

\* NormalizeReturn with an empty list of listings answered like an empty list of
\* records (line 349): 404
NormalizeReturnNotFound ==
    /\ pc = "normalize"
    /\ idx = Len(properties_data)
    /\ IF properties = <<>>
       THEN /\ pc' = "done"
            /\ response' = ErrorResponse(404)
       ELSE /\ pc' = "static_page"
            /\ UNCHANGED response
    /\ UNCHANGED <<query, criteria, search_summary, ai, location_overview, provider,
                   properties_data, idx, properties, kept, raised, calls>>

\* lines 396-397 and 441-450: search_zillow returns, and search_properties answers
\* at once when the list is empty
NormalizeReturn ==
    /\ pc = "normalize"
    /\ idx = Len(properties_data)
    /\ IF properties = <<>>
       THEN /\ pc' = "done"
            /\ response' = [status |-> 200, results |-> <<>>,
                            static_page_url |-> NoneVal,
                            search_summary |-> search_summary,
                            location_overview |-> location_overview]
       ELSE /\ pc' = "static_page"
            /\ UNCHANGED response
    /\ UNCHANGED <<query, criteria, search_summary, ai, location_overview, provider,
                   properties_data, idx, properties, kept, raised, calls>>

StaticPageUrl == <<"/","s","t","a","t","i","c","/","p","a","g","e",".","h","t","m","l">>

\* lines 452-465: generate_static_page returns the URL, or None when it failed
\* (lines 598-600 and 456-458), and the response is returned
StaticPage ==
    /\ pc = "static_page"
    /\ \E url \in {Str(StaticPageUrl), NoneVal} :
          response' = [status |-> 200, results |-> properties,
                       static_page_url |-> url,
                       search_summary |-> search_summary,
                       location_overview |-> location_overview]
    /\ pc' = "done"
    /\ calls' = Append(calls, "render")
    /\ UNCHANGED <<query, criteria, search_summary, ai, location_overview, provider,
                   properties_data, idx, properties, kept, raised>>

\* ------------------------------------------------------------------------
\* Specifications
\* ------------------------------------------------------------------------
\* the state in which search_properties receives request.query = q
Received(q) ==
    /\ pc = "start"
    /\ query = q
    /\ criteria = NoneVal
    /\ search_summary = <<>>
    /\ ai = "not_called"
    /\ location_overview = NoneVal
    /\ provider = NotCalled
    /\ properties_data = <<>>
    /\ idx = 0
    /\ properties = <<>>
    /\ kept = <<>>
    /\ raised = NoException
    /\ response = NoResponse
    /\ calls = <<>>

PipelineQueries ==
    {<<"h","o","m","e","s"," ","i","n"," ","B","o","s","t","o","n">>,
     <<"c","o","n","d","o","s"," ","n","e","a","r"," ","C","h","i","c","a","g","o"," ","u","n","d","e","r"," ","5","0","0","0","0","0">>,
     <<"c","h","e","a","p"," ","h","o","m","e","s">>,
     <<"M","i","a","m","i"," ","l","a","n","d"," ","u","n","d","e","r"," ","2"," ","m","i","l","l","i","o","n">>}

\* the whole request
Init == \E q \in PipelineQueries : Received(q)

Next ==
    \/ Interpret
    \/ Summarize
    \/ Overview
    \/ ZillowRequest
    \/ NormalizeStep
    \/ NormalizeReturn
    \/ StaticPage

Spec == Init /\ [][Next]_vars

\* ------------------------------------------------------------------------
\* The normalization loop alone, on the record lists a provider can send
\* ------------------------------------------------------------------------
NormQuery == <<"h","o","m","e","s"," ","i","n"," ","B","o","s","t","o","n">>

\* the state in which the loop of line 352 starts on a non-empty list l
LoopStarts(l) ==
    /\ pc = "normalize"
    /\ query = NormQuery
    /\ criteria = extract_search_params(NormQuery).returns
    /\ search_summary = generate_search_summary(criteria).returns
    /\ ai = "ok"
    /\ location_overview = generate_location_overview("ok")
    /\ provider = [kind |-> "json", props |-> l, results |-> Absent]
    /\ properties_data = l.v
    /\ idx = 0
    /\ properties = <<>>
    /\ kept = <<>>
    /\ raised = NoException
    /\ response = NoResponse
    /\ calls = <<"interpret", "summarize", "ai", "provider">>

InitNorm == \E l \in RecordLists(NormRecords) : l.v # <<>> /\ LoopStarts(l)

NextNorm ==
    \/ NormalizeStep
    \/ NormalizeReturn

SpecNorm == InitNorm /\ [][NextNorm]_vars

\* ------------------------------------------------------------------------
\* extract_search_params alone, on the queries of a vocabulary
\* ------------------------------------------------------------------------
\* words for the location patterns, the fallback and white space
LocationVocabulary ==
    {<<"c","o","n","d","o","s">>,
     <<"n","e","a","r">>,
     <<"i","n">>,
     <<"C","h","i","c","a","g","o">>,
     <<"u","n","d","e","r"," ","5","0","0","0","0","0">>,
     <<>>,
     <<"\t">>,
     <<"c","a","b","i","n">>,
     <<"n","e","a","r"," ","C","h","i","c","a","g","o">>,
     <<"N","e","w"," ","Y","o","r","k">>,
     <<"M","i","a","m","i",","," ","F","L">>,
     <<"A","T">>,
     <<"B","o","s","t","o","n">>,
     <<"h","o","m","e","s">>}

\* words for the price patterns
PriceVocabulary ==
    {<<"i","n"," ","B","o","s","t","o","n">>,
     <<"u","n","d","e","r">>,
     <<"l","e","s","s"," ","t","h","a","n">>,
     <<"m","i","l","l","i","o","n">>,
     <<"2">>,
     <<"2",".","5">>,
     <<"5","0","0","0","0","0">>,
     <<"$","5","0","0",",","0","0","0">>,
     <<"1",",","5","0","0",",","0","0","0">>,
     <<>>,
     <<"u","n","d","e","r"," ","5","0","0","0","0","0">>,
     <<"2"," ","m","i","l","l","i","o","n">>,
     <<"h","o","m","e","s">>}

\* a number of 310 digits, too large for a double
HugeNumber == [i \in 1..310 |-> "9"]

\* words for the order of the price patterns and for a number that does not convert
OrderVocabulary ==
    {<<"i","n"," ","B","o","s","t","o","n">>,
     <<"u","n","d","e","r"," ","5","0","0","0","0","0">>,
     <<"2"," ","m","i","l","l","i","o","n">>,
     <<"u","n","d","e","r"," ">> \o HugeNumber,
     <<"l","e","s","s"," ","t","h","a","n">>,
     <<"m","i","l","l","i","o","n">>,
     HugeNumber}

\* words for the property types, inside other words too
TypeVocabulary ==
    {<<"i","n">>,
     <<"B","o","s","t","o","n">>,
     <<"C","h","a","r","l","o","t","t","e">>,
     <<"P","o","r","t","l","a","n","d">>,
     <<"l","a","n","d">>,
     <<"l","o","t">>,
     <<"c","o","n","d","o">>,
     <<"C","O","N","D","O","S">>,
     <<"t","o","w","n","h","o","u","s","e">>,
     <<"t","o","w","n">>,
     <<"h","o","u","s","e">>,
     <<"m","u","l","t","i">>,
     <<"h","o","m","e","s">>}

InitLocation == \E q \in Queries(LocationVocabulary) : Received(q)
InitPrice == \E q \in Queries(PriceVocabulary) : Received(q)
InitType == \E q \in Queries(TypeVocabulary) : Received(q)
InitOrder == \E q \in Queries(OrderVocabulary) : Received(q)

NextInterpret == Interpret

SpecLocation == InitLocation /\ [][NextInterpret]_vars
SpecPrice == InitPrice /\ [][NextInterpret]_vars
SpecType == InitType /\ [][NextInterpret]_vars
SpecOrder == InitOrder /\ [][NextInterpret]_vars

\* ------------------------------------------------------------------------
\* generate_search_summary alone, on the criteria of the data model
\* ------------------------------------------------------------------------
SummaryLocations == {Str(<<"M","i","a","m","i",","," ","F","L">>), Str(<<"B","o","s","t","o","n",","," ","M","A">>), Str(<<" ">>)}

\* the five types, a name outside the table and the empty name
SummaryTypes == {"SINGLE_FAMILY", "CONDO", "TOWNHOUSE", "MULTI_FAMILY", "LAND", "VILLA", ""}

\* a price is None or a str that float() reads once "$" and "," are removed
SummaryPrices ==
    {NoneVal, Str(<<"7","5","0","0","0","0">>), Str(<<"5","0","0">>), Str(<<"$","1",",","2","5","0",",","0","0","0">>), Str(<<"1","2","0","0",".","7","5">>), Str(<<"0">>)}

SummaryCriteria ==
    [location : SummaryLocations, min_price : SummaryPrices,
     max_price : SummaryPrices, property_type : SummaryTypes]

\* the state in which line 426 calls generate_search_summary(c)
SummaryCalled(c) ==
    /\ pc = "summarize"
    /\ query = NormQuery
    /\ criteria = c
    /\ search_summary = <<>>
    /\ ai = "not_called"
    /\ location_overview = NoneVal
    /\ provider = NotCalled
    /\ properties_data = <<>>
    /\ idx = 0
    /\ properties = <<>>
    /\ kept = <<>>
    /\ raised = NoException
    /\ response = NoResponse
    /\ calls = <<"interpret">>

InitSummary == \E c \in SummaryCriteria : SummaryCalled(c)

NextSummary == Summarize

SpecSummary == InitSummary /\ [][NextSummary]_vars

\* ========================================================================
\* Properties
\* ========================================================================
IsDict(prop) == prop # NotADict

Range(f) == {f[i] : i \in DOMAIN f}

\* ------------------------------------------------------------------------
\* C1. Every provider failure detected inside search_zillow reaches the caller
\* of search_properties with its own status: HTTP 429 as 429, an empty result
\* set as 404, HTTP 401 as 500 and a time-out as 504.
\* Stated as claimed; the except clause of line 407 turns the 429 and the 404
\* into 500.
C1_ProviderFailureKeepsStatus ==
    pc = "done" /\ provider # NotCalled =>
        /\ provider.kind = "http" /\ provider.status = 429 => response.status = 429
        /\ provider.kind = "json" /\ PropertiesData(provider) = <<>> =>
              response.status = 404
        /\ provider.kind = "http" /\ provider.status = 401 => response.status = 500
        /\ provider.kind = "timeout" => response.status = 504

\* ------------------------------------------------------------------------
\* C2, as claimed: a record that has no "price" field yields no Listing.
C2_MissingPriceDropped ==
    \A j \in 1..Len(kept) : properties_data[kept[j]].price # Absent

\* C2, amended: a record that has no "price" field is normalized with price 0:
\* it yields a Listing of price 0 unless another of its fields makes it raise,
\* the records after it are still processed, and the loop raises no error.
C2_MissingPriceIsZero ==
    /\ \A j \in 1..Len(kept) :
          properties_data[kept[j]].price = Absent => properties[j].price = 0
    /\ \A i \in 1..idx :
          LET prop == properties_data[i]
          IN  /\ IsDict(prop)
              /\ prop.price = Absent
              /\ \A x \in {prop.streetAddress, prop.city, prop.state} :
                    x = Absent \/ IsStr(x)
              /\ IsStr(Get(prop.imgSrc, Get(prop.imageUrl, Str(<<>>))))
              => i \in Range(kept)
    /\ pc # "normalize" => idx = Len(properties_data) /\ response.status \in {0, 200}

\* a record without price was kept, and the record after it was processed too
C2_Witness ==
    /\ idx = 2
    /\ kept = <<1, 2>>
    /\ properties_data[1].price = Absent
    /\ properties[1].price = 0

\* ------------------------------------------------------------------------
\* C3, as claimed: "condos near Chicago under 500000" yields location
\* "Chicago, IL", type CONDO and max_price 500000; for a query
\* "<words> near X <price phrase>" with X a known city the location is X with
\* the city's state suffix, without the words that follow X.
\* The group [A-Za-z\s,]+ runs on over " under ", so the code returns
\* "Chicago under".
C3_Prefixes == {<<>>, <<"c","o","n","d","o","s"," ">>, <<"h","o","m","e","s"," ">>}
C3_Cities == {<<"C","h","i","c","a","g","o">>, <<"B","o","s","t","o","n">>, <<"N","e","w"," ","Y","o","r","k">>}

C3_NearCityYieldsCityAndState ==
    pc = "summarize" =>
        /\ query = <<"c","o","n","d","o","s"," ","n","e","a","r"," ","C","h","i","c","a","g","o"," ","u","n","d","e","r"," ","5","0","0","0","0","0">> =>
              criteria = [location |-> Str(<<"C","h","i","c","a","g","o",","," ","I","L">>),
                          min_price |-> NoneVal,
                          max_price |-> Str(<<"5","0","0","0","0","0">>),
                          property_type |-> "CONDO"]
        /\ \A pre \in C3_Prefixes, X \in C3_Cities :
              query = pre \o <<"n","e","a","r"," ">> \o X \o <<" ","u","n","d","e","r"," ","5","0","0","0","0","0">> =>
                 criteria.location = Str(X \o StateSuffix(lower(X)))

\* ------------------------------------------------------------------------
\* C4, as claimed: whenever extract_search_params returns, the location it
\* returns is a non-empty string.
\* When only white space follows "in ", "at " or "near ", strip() leaves "" and
\* line 106 returns it.
C4_LocationNonEmpty ==
    pc # "start" =>
        LET r == extract_search_params(query)
        IN  r # Raise400 => r.returns.location # Str(<<>>)

\* ------------------------------------------------------------------------
\* C5. When none of "in X", "at X", "near X" matches: a first word that starts
\* with an uppercase letter is returned as the location, exactly; otherwise
\* (the empty and the blank query too) the request fails with status 400 and no
\* location is set.
C5_Markers == {<<"i","n"," ">>, <<"a","t"," ">>, <<"n","e","a","r"," ">>}

C5_NoPattern(q) ==
    ~ \E m \in C5_Markers, p \in 1..Len(q) :
         /\ OccursAt(m, lower(q), p)
         /\ p + Len(m) <= Len(q)
         /\ q[p + Len(m)] \in UpperLetters \cup LowerLetters \cup Whitespace \cup {","}

C5_FirstToken(q) ==
    LET t == strip(q)
        blanks == {j \in 1..Len(t) : t[j] \in Whitespace}
    IN  IF blanks = {} THEN t ELSE SubSeq(t, 1, SetMin(blanks) - 1)

C5_FallbackOrError ==
    pc # "start" /\ C5_NoPattern(query) =>
        IF strip(query) # <<>> /\ C5_FirstToken(query)[1] \in UpperLetters
        THEN pc = "summarize" /\ criteria.location = Str(C5_FirstToken(query))
        ELSE pc = "done" /\ response = ErrorResponse(400) /\ criteria = NoneVal

\* no pattern matched and the first of several words became the location
C5_Witness ==
    /\ pc = "summarize"
    /\ C5_NoPattern(query)
    /\ Len(split(query)) > 1
    /\ criteria.location = Str(split(query)[1])

\* ------------------------------------------------------------------------
\* C6, as claimed: the steps of a request occur in the order interpret,
\* listing-provider call, normalization, AI call, summary, render; the AI call
\* is never issued before the provider call has returned, so a request whose
\* provider call fails issues no AI call.
C6_Position(order, step) == CHOOSE i \in 1..Len(order) : order[i] = step

C6_InOrder(order) ==
    \A i, j \in 1..Len(calls) :
        i < j => C6_Position(order, calls[i]) < C6_Position(order, calls[j])

C7_EnrichmentFailureIsAbsent ==
    /\ ai \in {"non200", "timeout", "malformed"} => location_overview = NoneVal
    /\ ai # "not_called" /\ provider = NotCalled => pc = "search" /\ response = NoResponse
    /\ pc = "done" /\ provider # NotCalled =>
          /\ response.status \in {200, 500, 504}
          /\ response.status = 200 <=> raised = NoException
    /\ pc = "done" /\ response.status = 200 =>
          /\ response.results = properties
          /\ response.search_summary = search_summary
          /\ response.location_overview = location_overview

\* the AI call timed out and the request answered with its listings
C7_Witness ==
    /\ pc = "done"
    /\ ai = "timeout"
    /\ response.status = 200
    /\ response.results # <<>>
    /\ response.location_overview = NoneVal

\* ------------------------------------------------------------------------
\* C8, as claimed: for a query with "under N" or "under $N" and no "million",
\* N a whole number with comma groups (500000, 500,000, 1,500,000), max_price
\* is N with the commas removed.
\* (\d+,?\d*) admits one comma: of 1,500,000 it captures 1,500.
EndsWith(s, t) == Len(t) <= Len(s) /\ SubSeq(s, Len(s) - Len(t) + 1, Len(s)) = t

C8_Numbers == {<<"5","0","0","0","0","0">>, <<"5","0","0",",","0","0","0">>, <<"1",",","5","0","0",",","0","0","0">>}

C8_UnderNumberAsIs ==
    pc = "summarize" /\ ~Contains(lower(query), Million) =>
        \A N \in C8_Numbers, dollar \in {<<>>, <<"$">>} :
            EndsWith(lower(query), <<"u","n","d","e","r"," ">> \o dollar \o N) =>
                criteria.max_price = Str(Remove(N, ","))

\* ------------------------------------------------------------------------
\* C9. The price patterns are tried in the order under+million, under+number,
\* less-than+million, less-than+number, number+million, number. As stated: the
\* first one that matches the lowercased query decides max_price, wherever later
\* ones match (C9_FirstPatternDecides). Of the code: the first one that matches
\* and whose number converts decides; a match whose number is too large for a
\* double is skipped and the next pattern is tried; with "under 500000" and
\* "2 million" max_price is 500000; when none matches and converts max_price
\* stays None (C9_FirstConvertingPatternDecides).
C9_Order ==
    << [word |-> <<"u","n","d","e","r">>, million |-> TRUE],
       [word |-> <<"u","n","d","e","r">>, million |-> FALSE],
       [word |-> <<"l","e","s","s"," ","t","h","a","n">>, million |-> TRUE],
       [word |-> <<"l","e","s","s"," ","t","h","a","n">>, million |-> FALSE],
       [word |-> <<>>, million |-> TRUE],
       [word |-> <<>>, million |-> FALSE] >>

C9_Matching(q) == {k \in 1..Len(C9_Order) : PriceMatches(C9_Order[k], lower(q)) # {}}

\* the number the k-th pattern captures, in dollars
C9_Value(k, q) ==
    LET pat == C9_Order[k]
        x == PriceGroup(pat, lower(q))
    IN  IF pat.million THEN MillionDigits(x) ELSE PlainDigits(x)

C9_Converting(q) == {k \in C9_Matching(q) : ~FloatOverflows(C9_Value(k, q))}

C9_Examples ==
    {<<"i","n"," ","B","o","s","t","o","n"," ","u","n","d","e","r"," ","5","0","0","0","0","0"," ","2"," ","m","i","l","l","i","o","n">>,
     <<"2"," ","m","i","l","l","i","o","n"," ","u","n","d","e","r"," ","5","0","0","0","0","0"," ","i","n"," ","B","o","s","t","o","n">>}

\* C9 as stated: the first matching pattern alone decides max_price
C9_FirstPatternDecides ==
    pc = "summarize" =>
        /\ IF C9_Matching(query) = {} THEN criteria.max_price = NoneVal
           ELSE criteria.max_price = Str(C9_Value(SetMin(C9_Matching(query)), query))
        /\ query \in C9_Examples => criteria.max_price = Str(<<"5","0","0","0","0","0">>)

\* C9 of the code: the first matching pattern whose number converts decides
C9_FirstConvertingPatternDecides ==
    pc = "summarize" =>
        /\ IF C9_Converting(query) = {} THEN criteria.max_price = NoneVal
           ELSE criteria.max_price = Str(C9_Value(SetMin(C9_Converting(query)), query))
        /\ query \in C9_Examples => criteria.max_price = Str(<<"5","0","0","0","0","0">>)

\* "under" with a number too large for a double, then "2 million": the first
\* matching pattern is under+number, and max_price is 2000000
C9_Witness ==
    /\ pc = "summarize"
    /\ C9_Matching(query) = {2, 5, 6}
    /\ C9_Converting(query) = {5, 6}
    /\ criteria.max_price = Str(<<"2","0","0","0","0","0","0">>)

\* ------------------------------------------------------------------------
\* C10. The property type is decided by substring tests on the lowercased
\* query in the order "land" or "lot" -> LAND, "condo" -> CONDO, "townhouse" or
\* "town house" -> TOWNHOUSE, "multi" -> MULTI_FAMILY, else SINGLE_FAMILY; a
\* query with "condo" and with "lot" inside a place name yields LAND.
C10_TypePrecedence ==
    pc = "summarize" =>
        LET s == lower(query)
        IN  criteria.property_type =
               IF Contains(s, <<"l","a","n","d">>) \/ Contains(s, <<"l","o","t">>) THEN "LAND"
               ELSE IF Contains(s, <<"c","o","n","d","o">>) THEN "CONDO"
               ELSE IF Contains(s, <<"t","o","w","n","h","o","u","s","e">>) \/ Contains(s, <<"t","o","w","n"," ","h","o","u","s","e">>)
               THEN "TOWNHOUSE"
               ELSE IF Contains(s, <<"m","u","l","t","i">>) THEN "MULTI_FAMILY"
               ELSE "SINGLE_FAMILY"

\* "condo in Charlotte" is a search for land
C10_Witness ==
    /\ pc = "summarize"
    /\ query = <<"c","o","n","d","o"," ","i","n"," ","C","h","a","r","l","o","t","t","e">>
    /\ criteria.property_type = "LAND"

\* ------------------------------------------------------------------------
\* C11. For criteria with a non-empty location generate_search_summary returns
\* "Looking for {noun} in {location}", the noun being the plural of the property
\* type ("properties" for a type outside the table), followed by exactly one
\* price clause chosen by the bounds that are present: both -> " priced between
\* $min and $max", only min -> " priced above $min", only max -> " priced under
\* $max", neither -> none, the amounts with thousands separators; location
\* "Miami, FL", CONDO and max 750000 give "Looking for condominiums in Miami, FL
\* priced under $750,000".
C11_Noun(property_type) ==
    IF property_type = "SINGLE_FAMILY" THEN <<"s","i","n","g","l","e","-","f","a","m","i","l","y"," ","h","o","m","e","s">>
    ELSE IF property_type = "CONDO" THEN <<"c","o","n","d","o","m","i","n","i","u","m","s">>
    ELSE IF property_type = "TOWNHOUSE" THEN <<"t","o","w","n","h","o","u","s","e","s">>
    ELSE IF property_type = "MULTI_FAMILY" THEN <<"m","u","l","t","i","-","f","a","m","i","l","y"," ","h","o","m","e","s">>
    ELSE IF property_type = "LAND" THEN <<"l","a","n","d">>
    ELSE <<"p","r","o","p","e","r","t","i","e","s">>

\* the amounts of SummaryPrices as whole dollars with thousands separators
C11_Amount(v) ==
    IF v = Str(<<"7","5","0","0","0","0">>) THEN <<"$","7","5","0",",","0","0","0">>
    ELSE IF v = Str(<<"5","0","0">>) THEN <<"$","5","0","0">>
    ELSE IF v = Str(<<"$","1",",","2","5","0",",","0","0","0">>) THEN <<"$","1",",","2","5","0",",","0","0","0">>
    ELSE IF v = Str(<<"1","2","0","0",".","7","5">>) THEN <<"$","1",",","2","0","0">>
    ELSE <<"$","0">>

C11_Clause(c) ==
    IF c.min_price # NoneVal /\ c.max_price # NoneVal
    THEN <<" ","p","r","i","c","e","d"," ","b","e","t","w","e","e","n"," ">> \o C11_Amount(c.min_price) \o <<" ","a","n","d"," ">> \o C11_Amount(c.max_price)
    ELSE IF c.min_price # NoneVal THEN <<" ","p","r","i","c","e","d"," ","a","b","o","v","e"," ">> \o C11_Amount(c.min_price)
    ELSE IF c.max_price # NoneVal THEN <<" ","p","r","i","c","e","d"," ","u","n","d","e","r"," ">> \o C11_Amount(c.max_price)
    ELSE <<>>

C11_Example ==
    [location |-> Str(<<"M","i","a","m","i",","," ","F","L">>), min_price |-> NoneVal,
     max_price |-> Str(<<"7","5","0","0","0","0">>), property_type |-> "CONDO"]

C11_SummaryText ==
    pc # "summarize" /\ criteria.location # Str(<<>>) =>
        /\ pc = "overview"
        /\ search_summary = <<"L","o","o","k","i","n","g"," ","f","o","r"," ">> \o C11_Noun(criteria.property_type) \o <<" ","i","n"," ">>
                                \o criteria.location.v \o C11_Clause(criteria)
        /\ criteria = C11_Example => search_summary = <<"L","o","o","k","i","n","g"," ","f","o","r"," ","c","o","n","d","o","m","i","n","i","u","m","s"," ","i","n"," ","M","i","a","m","i",","," ","F","L"," ","p","r","i","c","e","d"," ","u","n","d","e","r"," ","$","7","5","0",",","0","0","0">>

\* both bounds are present and the summary has been returned
C11_Witness ==
    /\ pc = "overview"
    /\ calls = <<"interpret", "summarize">>
    /\ criteria.property_type = "TOWNHOUSE"
    /\ criteria.min_price = Str(<<"1","2","0","0",".","7","5">>)
    /\ criteria.max_price = Str(<<"$","1",",","2","5","0",",","0","0","0">>)
    /\ search_summary = <<"L","o","o","k","i","n","g"," ","f","o","r"," ","t","o","w","n","h","o","u","s","e","s"," ","i","n"," ","B","o","s","t","o","n",","," ","M","A"," ","p","r","i","c","e","d"," ","b","e","t","w","e","e","n"," ","$","1",",","2","0","0"," ","a","n","d"," ","$","1",",","2","5","0",",","0","0","0">>

\* ------------------------------------------------------------------------
\* C12. For every normalized record the features list holds, in the order
\* bedrooms, bathrooms, living area, exactly one formatted entry for each of
\* these fields that is present in the record, a present field whose value is 0
\* included, and no entry for a field that is absent.
\* Stated as claimed; lines 362-367 test the truth of the value, so a present 0
\* gets no entry.
C12_Entry(v, unit) == IF v = Absent THEN <<>> ELSE <<PyStr(v) \o unit>>

C12_Features(prop) ==
    C12_Entry(prop.bedrooms, <<" ","b","e","d","r","o","o","m","s">>)
    \o C12_Entry(prop.bathrooms, <<" ","b","a","t","h","r","o","o","m","s">>)
    \o C12_Entry(prop.livingArea, <<" ","s","q","f","t">>)

C12_PresentFieldsListed ==
    pc = "normalize" =>
        \A i \in 1..Len(kept) :
            properties[i].features = C12_Features(properties_data[kept[i]])

\* ------------------------------------------------------------------------
\* C13. On a non-empty sequence of provider records the normalization loop of
\* search_zillow never fails as a whole: a record whose processing raises (a
\* price that does not parse, a null address field, a record that is no map, an
\* invalid Listing field) is skipped on its own, every record is processed, and
\* the listings are exactly the records that map, in their original order, one
\* listing per kept record.
C13_Malformed(prop) ==
    \/ prop = NotADict
    \/ prop.price = NoneVal
    \/ prop.price = Str(<<"a","b","c">>)
    \/ prop.price = Str(<<>>)
    \/ prop.streetAddress = NoneVal
    \/ prop.city = NoneVal
    \/ prop.state = NoneVal
    \/ prop.imgSrc = NoneVal

C13_SkipsIndividually ==
    /\ idx <= Len(properties_data)
    /\ pc # "normalize" => idx = Len(properties_data)
    /\ raised = NoException
    /\ response.status \in {0, 200}
    /\ Len(properties) = Len(kept)
    /\ \A i, j \in 1..Len(kept) : i < j => kept[i] < kept[j]
    /\ Range(kept) = {k \in 1..idx : ~C13_Malformed(properties_data[k])}
    /\ \A i \in 1..Len(kept) :
          properties[i] = NormalizeRecord(properties_data[kept[i]], criteria.location).returns

\* the first record is no map and is skipped, the second is kept and returned
C13_Witness ==
    /\ pc = "static_page"
    /\ idx = 2
    /\ kept = <<2>>
    /\ properties_data[1] = NotADict
    /\ Len(properties) = 1

\* ------------------------------------------------------------------------
\* C14. When the provider returns a non-empty list of records and every record
\* is dropped by the normalization, search_properties does not answer with the
\* 404 of an empty result set: it answers 200 with an empty results list, no
\* static_page_url and the search summary, and generate_static_page is not
\* called.
C14_AllDropped ==
    /\ provider.kind = "json"
    /\ PropertiesData(provider) # <<>>
    /\ \A k \in 1..Len(PropertiesData(provider)) : C13_Malformed(PropertiesData(provider)[k])

C14_AllDroppedIsEmptySuccess ==
    pc = "done" /\ C14_AllDropped =>
        /\ response.status = 200
        /\ response.results = <<>>
        /\ response.static_page_url = NoneVal
        /\ response.search_summary = search_summary
        /\ search_summary # <<>>
        /\ \A i \in 1..Len(calls) : calls[i] # "render"

\* two records, both dropped, and the request has been answered
C14_Witness ==
    /\ pc = "done"
    /\ C14_AllDropped
    /\ Len(properties_data) = 2
    /\ idx = 2
    /\ response.status = 200
    /\ response.results = <<>>

====
